---- MODULE Spec2Model ----
(***************************************************************************)
(* Prompt-chain execution and structured-output extraction: the action     *)
(* entry point, generate, getChainForPrompt and getJSONCodeBlock.          *)
(*                                                                         *)
(* Strings are modelled as sequences of atomic chunks.  A response text is *)
(* a sequence of lines (joined by "\n" in the program); a prompt, a        *)
(* template and an error message are sequences of chunks that the program  *)
(* concatenates.                                                           *)
(***************************************************************************)
EXTENDS Integers, Sequences, FiniteSets, TLC

\* ---------------------------------------------------------------- bounds
MaxLines == 5
MaxSteps == 2

\* ------------------------------------------------------- string helpers
\* Whitespace chunks: a blank line / run of spaces, and a newline.
IsSpace(c) == c \in {" ", "\n"}

RECURSIVE trimStart(_)
trimStart(s) ==
  IF s = <<>> THEN <<>>
  ELSE IF IsSpace(Head(s)) THEN trimStart(Tail(s)) ELSE s

RECURSIVE trimEnd(_)
trimEnd(s) ==
  IF s = <<>> THEN <<>>
  ELSE IF IsSpace(s[Len(s)]) THEN trimEnd(SubSeq(s, 1, Len(s) - 1)) ELSE s

\* String.prototype.trim
trim(s) == trimEnd(trimStart(s))

\* Array.prototype.join(sep) over chunks
RECURSIVE join(_, _)
join(parts, sep) ==
  IF parts = <<>> THEN <<>>
  ELSE IF Len(parts) = 1 THEN <<parts[1]>>
  ELSE <<parts[1], sep>> \o join(Tail(parts), sep)

\* Concatenation of a sequence of chunk sequences
RECURSIVE concat(_)
concat(ss) == IF ss = <<>> THEN <<>> ELSE Head(ss) \o concat(Tail(ss))

\* ------------------------------------------------------------- JSON
\* JSON values: kind, the literal of a scalar, the items of an array.
Undefined == [kind |-> "undefined", lit |-> "", items |-> <<>>]
JNumber(n) == [kind |-> "number", lit |-> n, items |-> <<>>]
JString(s) == [kind |-> "string", lit |-> s, items |-> <<>>]
JObject    == [kind |-> "object", lit |-> "{}", items |-> <<>>]
JArray(xs) == [kind |-> "array", lit |-> "", items |-> xs]

\* The lines of a text that are complete JSON documents.  QuotedFence is a
\* JSON string literal whose characters spell a fenced json block.
QuotedFence == "\"~~~json [2] ~~~\""
JSONLiterals == {"[1]", "{}", QuotedFence}

JSONLiteralValue(l) ==
  CASE l = "[1]" -> JArray(<<JNumber("1")>>)
    [] l = "{}" -> JObject
    [] l = QuotedFence -> JString("~~~json [2] ~~~")
    [] OTHER -> Undefined

\* JSON.parse skips leading and trailing whitespace and accepts exactly one
\* JSON document; anything else throws SyntaxError.
JSONParseThrows(s) ==
  LET t == trim(s) IN ~(Len(t) = 1 /\ t[1] \in JSONLiterals)

JSONParse(s) == JSONLiteralValue(trim(s)[1])

IsArray(v) == v.kind = "array"

\* JSON.stringify(json, null, 2), as chunks
RECURSIVE JSONStringify(_)
JSONStringify(v) ==
  CASE v.kind = "array" ->
         IF v.items = <<>> THEN <<"[]">>
         ELSE <<"[\n">>
              \o concat([n \in 1..Len(v.items) |->
                   JSONStringify(v.items[n])
                   \o (IF n < Len(v.items) THEN <<",\n">> ELSE <<>>)])
              \o <<"\n]">>
    [] v.kind = "string" -> <<"\"", v.lit, "\"">>
    [] v.kind = "undefined" -> <<>>
    [] OTHER -> <<v.lit>>

\* ------------------------------------------------- markdown code blocks
\* A fence line of three backticks is written ~~~ here.
FenceJson == "~~~json"
FenceBare == "~~~"
FenceTs   == "~~~typescript"
FenceLines == {FenceJson, FenceBare, FenceTs}

FenceLang(l) ==
  CASE l = FenceJson -> "json"
    [] l = FenceTs -> "typescript"
    [] OTHER -> ""

\* parseMarkdown(text) restricted to its "code" nodes, in document order:
\* an opening fence starts a block, the next bare fence closes it, and an
\* unclosed block runs to the end of the document.
RECURSIVE scanFences(_, _, _, _)
scanFences(lines, inBlock, lang, body) ==
  IF lines = <<>> THEN
    IF inBlock THEN <<[lang |-> lang, value |-> body]>> ELSE <<>>
  ELSE IF inBlock THEN
    IF Head(lines) = FenceBare
    THEN <<[lang |-> lang, value |-> body]>>
         \o scanFences(Tail(lines), FALSE, "", <<>>)
    ELSE scanFences(Tail(lines), TRUE, lang, Append(body, Head(lines)))
  ELSE IF Head(lines) \in FenceLines
    THEN scanFences(Tail(lines), TRUE, FenceLang(Head(lines)), <<>>)
    ELSE scanFences(Tail(lines), FALSE, "", <<>>)

parseMarkdown(text) == scanFences(text, FALSE, "", <<>>)

\* Variant: push and unshift exchanged, so untagged blocks come first.
visitCodeUntaggedFirst(codeBlocks, node) ==
  IF node.lang = "json" THEN Append(codeBlocks, trim(node.value))
  ELSE IF node.lang = "" THEN <<trim(node.value)>> \o codeBlocks
  ELSE codeBlocks

\* The visitor of getJSONCodeBlock applied to one code node.
visitCode(codeBlocks, node) ==
  IF node.lang = "json" THEN <<trim(node.value)>> \o codeBlocks
  ELSE IF node.lang = "" THEN Append(codeBlocks, trim(node.value))
  ELSE codeBlocks

\* visit(tree, "code", ...): the visitor folded over the nodes in order.
RECURSIVE visit(_, _)
visit(nodes, codeBlocks) ==
  IF nodes = <<>> THEN codeBlocks
  ELSE visit(Tail(nodes), visitCode(codeBlocks, Head(nodes)))

\* ------------------------------------------------------ getJSONCodeBlock
ParsingFailed == "Parsing failed"
NoCodeBlocksFound == "No code blocks found"

\* The text as one string: its lines joined by newlines.
textString(text) == join(text, "\n")

\* errorMsg.join("\n\n") of the thrown Error; errorMsg holds strings.
RECURSIVE joinStrings(_, _)
joinStrings(strs, sep) ==
  IF strs = <<>> THEN <<>>
  ELSE IF Len(strs) = 1 THEN strs[1]
  ELSE strs[1] \o <<sep>> \o joinStrings(Tail(strs), sep)

\* Variant: the marker is pushed whether or not a block was found.
extractionErrorMsgAlwaysMarker(text, noBlocks, prod) ==
  joinStrings(<< <<ParsingFailed>>, <<NoCodeBlocksFound>> >>
              \o (IF ~prod THEN <<textString(text)>> ELSE <<>>), "\n\n")

extractionErrorMsg(text, noBlocks, prod) ==
  joinStrings(<< <<ParsingFailed>> >>
              \o (IF noBlocks THEN << <<NoCodeBlocksFound>> >> ELSE <<>>)
              \o (IF ~prod THEN <<textString(text)>> ELSE <<>>), "\n\n")

Returned(v, scanned) ==
  [state |-> "returned", value |-> v, error |-> <<>>, scanned |-> scanned]
Thrown(msg, scanned) ==
  [state |-> "thrown", value |-> Undefined, error |-> msg, scanned |-> scanned]
NotExtracted ==
  [state |-> "none", value |-> Undefined, error |-> <<>>, scanned |-> FALSE]

\* Variant: no direct JSON.parse of the text, only the code block scan.
getJSONCodeBlockScanOnly(text, prod) ==
  LET codeBlocks == visit(parseMarkdown(text), <<>>) IN
  IF Len(codeBlocks) > 0 /\ ~JSONParseThrows(codeBlocks[1])
  THEN Returned(JSONParse(codeBlocks[1]), TRUE)
  ELSE Thrown(extractionErrorMsg(text, Len(codeBlocks) = 0, prod), TRUE)

\* Variant: the candidates are tried in turn until one parses.
getJSONCodeBlockFallback(text, prod) ==
  IF ~JSONParseThrows(trim(text)) THEN Returned(JSONParse(trim(text)), FALSE)
  ELSE
    LET codeBlocks == visit(parseMarkdown(text), <<>>)
        parsing == {n \in 1..Len(codeBlocks) : ~JSONParseThrows(codeBlocks[n])}
    IN IF parsing # {}
       THEN Returned(JSONParse(codeBlocks[CHOOSE n \in parsing :
                                            \A m \in parsing : n <= m]), TRUE)
       ELSE Thrown(extractionErrorMsg(text, Len(codeBlocks) = 0, prod), TRUE)

\* getJSONCodeBlock(text) under NODE_ENV; scanned records whether
\* parseMarkdown was called.
getJSONCodeBlock(text, prod) ==
  IF ~JSONParseThrows(trim(text)) THEN Returned(JSONParse(trim(text)), FALSE)
  ELSE
    LET codeBlocks == visit(parseMarkdown(text), <<>>) IN
    IF Len(codeBlocks) > 0 /\ ~JSONParseThrows(codeBlocks[1])
    THEN Returned(JSONParse(codeBlocks[1]), TRUE)
    ELSE Thrown(extractionErrorMsg(text, Len(codeBlocks) = 0, prod), TRUE)

\* ---------------------------------------------------------- templates
Marker == "<!--prompt-content-->"

\* templates: the instances template starts with a newline.
templates(step) ==
  IF step = "instances"
  THEN <<"\n", "instances-head", Marker, "instances-tail">>
  ELSE <<"styles-head", Marker, "styles-tail">>

RECURSIVE indexOf(_, _, _)
indexOf(s, c, from) ==
  IF from > Len(s) THEN 0
  ELSE IF s[from] = c THEN from ELSE indexOf(s, c, from + 1)

\* A chunk of the replacement string, as String.prototype.replace expands
\* it: $$ is a dollar sign, $& the matched text; anything else is literal.
expandReplacement(c, matched) ==
  CASE c = "$$" -> <<"$">>
    [] c = "$&" -> <<matched>>
    [] OTHER -> <<c>>

\* template.replace(/<!--prompt-content-->/, prompt): the first match only.
replace(template, prompt) ==
  LET k == indexOf(template, Marker, 1) IN
  IF k = 0 THEN template
  ELSE SubSeq(template, 1, k - 1)
       \o concat([n \in 1..Len(prompt) |-> expandReplacement(prompt[n], Marker)])
       \o SubSeq(template, k + 1, Len(template))

\* ----------------------------------------------------- request schema
MaxPromptLength == 280
StepSchema == {"instances", "styles"}

LongText == "<281 characters>"
ChunkLength(c) ==
  CASE c = LongText -> MaxPromptLength + 1
    [] c = "make a button" -> 13
    [] c = "$&" -> 2
    [] OTHER -> 1

RECURSIVE stringLength(_)
stringLength(s) ==
  IF s = <<>> THEN 0 ELSE ChunkLength(Head(s)) + stringLength(Tail(s))

\* The form fields a request can carry.
Prompts == {<<>>, <<LongText>>, <<" ", "make a button", " ">>, <<"$&">>}
FormSteps == StepSchema \cup {"props"}
HistoryJSON == "[{user:x},{assistant:y}]"
FormMessages == {"", HistoryJSON, "not json"}

History == <<[role |-> "user", content |-> <<"x">>],
             [role |-> "assistant", content |-> <<"y">>]>>

\* schema.parse(formData) throws ZodError: zfd.text turns "" into undefined,
\* which z.string() and the enum reject.
schemaThrows(form) ==
  \/ form.prompt = <<>>
  \/ stringLength(form.prompt) > MaxPromptLength
  \/ \E k \in 1..Len(form.steps) : form.steps[k] \notin StepSchema

\* formData.messages[index]: undefined past the end and for an empty field.
formMessage(form, k) ==
  IF k <= Len(form.messages) THEN form.messages[k] ELSE ""

\* JSON.parse(m) of one messages field throws SyntaxError.
messageParseThrows(m) == m = "not json"

Null == [isNull |-> TRUE, list |-> <<>>]
Explicit(list) == [isNull |-> FALSE, list |-> list]

\* typeof m === "string" ? JSON.parse(m) : null
parseMessage(m) == IF m = "" THEN Null ELSE Explicit(History)

\* ------------------------------------------------------ getChainForPrompt
\* Variant: the previous response is never put in front.
completionRequestMessagesNoAssistant(i, stepList, messageList, responseList, prompt) ==
  LET template == stepList[i + 1].template
      user == [role |-> "user", content |-> trim(replace(template, prompt))]
      messagesForStep == messageList[i + 1]
  IN IF ~messagesForStep.isNull THEN messagesForStep.list \o <<user>>
     ELSE <<user>>

\* Variant: two independent ifs, so the previous response is put in front of
\* an explicit history too.
completionRequestMessagesBothPrefixes(i, stepList, messageList, responseList, prompt) ==
  LET template == stepList[i + 1].template
      user == [role |-> "user", content |-> trim(replace(template, prompt))]
      messagesForStep == messageList[i + 1]
      history == IF messagesForStep.isNull THEN <<>> ELSE messagesForStep.list
  IN IF i > 0 /\ i <= Len(responseList)
     THEN <<[role |-> "assistant", content |-> responseList[i].text]>>
          \o history \o <<user>>
     ELSE history \o <<user>>

\* The message list built for step i (0-based) before complete() is called.
completionRequestMessages(i, stepList, messageList, responseList, prompt) ==
  LET template == stepList[i + 1].template
      user == [role |-> "user", content |-> trim(replace(template, prompt))]
      messagesForStep == messageList[i + 1]
  IN IF ~messagesForStep.isNull THEN messagesForStep.list \o <<user>>
     ELSE IF i > 0 /\ i <= Len(responseList)
     THEN <<[role |-> "assistant", content |-> responseList[i].text]>>
          \o <<user>>
     ELSE <<user>>

\* ------------------------------------------------------ Completion Client
\* What fetch resolves to: a non-ok status, or a body whose first choice
\* carries the reply text (the content may be missing).
Statuses == {[status |-> "401", statusText |-> "Unauthorized"],
             [status |-> "500", statusText |-> "Internal Server Error"]}

ReplyTexts == {<<"[1]">>, <<"{}">>, <<"oops", FenceJson, "[1]", FenceBare>>,
               <<"oops">>, <<FenceBare, "oops">>, <<>>}

Replies == [hasContent : {TRUE}, content : ReplyTexts]
           \cup {[hasContent |-> FALSE, content |-> <<>>]}

\* The outcome of one complete() call, as the caller sees it.
Resolved(reply) ==
  [ok |-> TRUE, status |-> "200", statusText |-> "OK",
   hasContent |-> reply.hasContent, content |-> reply.content]
Rejected(st) ==
  [ok |-> FALSE, status |-> st.status, statusText |-> st.statusText,
   hasContent |-> FALSE, content |-> <<>>]

\* completion.choices[0].message?.content || ""
replyContent(reply) == IF reply.hasContent THEN reply.content ELSE <<>>

\* `${response.status}: ${response.statusText}`
serviceErrorMsg(st) == <<st.status, ": ", st.statusText>>

\* ------------------------------------------------------------- generate
ApiMissing == <<"OpenAI API missing">>
OrgInvalid == <<"OpenAI org missing or invalid">>

\* The schemas are imported; the source shows only that the styles schema
\* is an array schema.  A verdict is TRUE when the validator returns.
validators(step, json) ==
  IF step = "styles" /\ ~IsArray(json) THEN {FALSE} ELSE BOOLEAN

ZodMessage == "ZodError"

\* `Invalid ${step} generation. ${production ? "" : stringify + message}`
invalidGenerationMsg(step, json, prod) ==
  <<"Invalid ", step, " generation. ">>
  \o (IF prod THEN <<>> ELSE JSONStringify(json) \o <<"\n\n", ZodMessage>>)

\* Variant: the cause is appended in production too.
somethingWentWrongMsgWithCause(cause, prod) ==
  <<"Something went wrong. ">> \o cause

\* `Something went wrong. ${production ? "" : error.message}`
somethingWentWrongMsg(cause, prod) ==
  <<"Something went wrong. ">> \o (IF prod THEN <<>> ELSE cause)

\* Variant: every value is wrapped.
normalizeAlwaysWrap(json) == JArray(<<json>>)

\* Array.isArray(json) ? json : [json]
normalize(json) == IF IsArray(json) THEN json ELSE JArray(<<json>>)

\* Variant: a step that fails is left out and the others are returned.
RECURSIVE mapResponsesSkipFailed(_, _, _, _)
mapResponsesSkipFailed(k, responseList, v, prod) ==
  IF k > Len(responseList) THEN [thrown |-> FALSE, pairs |-> <<>>, error |-> <<>>]
  ELSE
    LET step == responseList[k].step
        ex == getJSONCodeBlock(responseList[k].text, prod)
        rest == mapResponsesSkipFailed(k + 1, responseList, v, prod)
    IN IF ex.state = "thrown" \/ ~v[k] THEN rest
       ELSE [thrown |-> FALSE, error |-> <<>>,
             pairs |-> <<[step |-> step, json |-> normalize(ex.value)]>>
                       \o rest.pairs]

\* responses.map(...) from element k on, under validator verdicts v: either
\* the pairs, or the first error thrown.
RECURSIVE mapResponses(_, _, _, _)
mapResponses(k, responseList, v, prod) ==
  IF k > Len(responseList) THEN [thrown |-> FALSE, pairs |-> <<>>, error |-> <<>>]
  ELSE
    LET step == responseList[k].step
        ex == getJSONCodeBlock(responseList[k].text, prod)
    IN IF ex.state = "thrown"
       THEN [thrown |-> TRUE, pairs |-> <<>>, error |-> ex.error]
       ELSE IF ~v[k]
       THEN [thrown |-> TRUE, pairs |-> <<>>,
             error |-> invalidGenerationMsg(step, ex.value, prod)]
       ELSE LET rest == mapResponses(k + 1, responseList, v, prod) IN
            IF rest.thrown THEN rest
            ELSE [thrown |-> FALSE, error |-> <<>>,
                  pairs |-> <<[step |-> step, json |-> normalize(ex.value)]>>
                            \o rest.pairs]

\* ------------------------------------------------------------- state
VARIABLES
  featureEnabled,  \* isFeatureEnabled("ai")
  production,      \* process.env.NODE_ENV === "production"
  env,             \* env.OPENAI_KEY, env.OPENAI_ORG
  request,         \* the form data of the request
  pc,              \* position of the invocation
  userPrompt,      \* action: formData.prompt.trim()
  steps,           \* action: [step, template] pairs
  messages,        \* action: per-step explicit history or null
  i,               \* chain: loop index
  responses,       \* chain: [step, raw text] per completed step
  calls,           \* the message lists handed to complete(), in order
  inflight,        \* complete() promises not yet settled
  settled,         \* what each settled complete() call produced, in order
  verdicts,        \* generate: what each validator call did
  result,          \* what action returned
  text,            \* extractor input
  extracted,       \* extractor output
  cancelledAt,     \* calls made when the host aborted the request, or -1
  chains           \* the chain() invocations of the two-invocation runs

vars == <<featureEnabled, production, env, request, pc, userPrompt, steps,
          messages, i, responses, calls, inflight, settled, verdicts, result,
          text, extracted, cancelledAt, chains>>

Pending == [kind |-> "pending", value |-> <<>>, errors |-> <<>>,
            errorsIsArray |-> FALSE]
Ok(pairs) == [kind |-> "ok", value |-> pairs, errors |-> <<>>,
              errorsIsArray |-> FALSE]
\* { errors: error.message }
Errors(msg) == [kind |-> "errors", value |-> <<>>, errors |-> msg,
                errorsIsArray |-> FALSE]
\* { errors: ["Feature not available"] }
ErrorsArray(msg) == [kind |-> "errors", value |-> <<>>, errors |-> msg,
                     errorsIsArray |-> TRUE]

Environments ==
  {[OPENAI_KEY |-> <<"sk-key">>, OPENAI_ORG |-> <<"org-", "1">>],
   [OPENAI_KEY |-> <<" ">>, OPENAI_ORG |-> <<"org-", "1">>],
   [OPENAI_KEY |-> <<"sk-key">>, OPENAI_ORG |-> <<"x", "org-">>],
   [OPENAI_KEY |-> <<>>, OPENAI_ORG |-> <<>>]}

SeqsUpTo(S, n) == UNION {[1..m -> S] : m \in 0..n}

Requests == [prompt : Prompts,
             steps : SeqsUpTo(FormSteps, MaxSteps),
             messages : SeqsUpTo(FormMessages, MaxSteps)]

Idle ==
  /\ userPrompt = <<>>
  /\ steps = <<>>
  /\ messages = <<>>
  /\ i = 0
  /\ responses = <<>>
  /\ calls = <<>>
  /\ inflight = 0
  /\ settled = <<>>
  /\ verdicts = <<>>
  /\ result = Pending
  /\ cancelledAt = -1

Init ==
  /\ featureEnabled \in BOOLEAN
  /\ production \in BOOLEAN
  /\ env \in Environments
  /\ request \in Requests
  /\ pc = "entry"
  /\ Idle
  /\ chains = <<>>
  /\ text = <<>>
  /\ extracted = NotExtracted

\* ------------------------------------------------------------- action
\* Variant: the form is parsed before the feature flag is looked at.
ActionEntryParseFirst ==
  /\ pc = "entry"
  /\ IF schemaThrows(request) THEN
       /\ result' = Errors(<<"ZodError">>)
       /\ pc' = "done"
       /\ UNCHANGED <<userPrompt, steps, messages>>
     ELSE IF \E k \in 1..Len(request.steps) :
               messageParseThrows(formMessage(request, k)) THEN
       /\ result' = Errors(<<"SyntaxError">>)
       /\ pc' = "done"
       /\ UNCHANGED <<userPrompt, steps, messages>>
     ELSE IF ~featureEnabled THEN
       /\ result' = ErrorsArray(<<"Feature not available">>)
       /\ pc' = "done"
       /\ UNCHANGED <<userPrompt, steps, messages>>
     ELSE
       /\ userPrompt' = trim(request.prompt)
       /\ steps' = [k \in 1..Len(request.steps) |->
                      [step |-> request.steps[k],
                       template |-> templates(request.steps[k])]]
       /\ messages' = [k \in 1..Len(request.steps) |->
                         parseMessage(formMessage(request, k))]
       /\ pc' = "generate"
       /\ UNCHANGED result
  /\ UNCHANGED <<cancelledAt, chains>>
  /\ UNCHANGED <<featureEnabled, production, env, request, i, responses,
                 calls, inflight, settled, verdicts, text, extracted>>

\* action, from its entry to the call of generate.
ActionEntry ==
  /\ pc = "entry"
  /\ IF ~featureEnabled THEN
       /\ result' = ErrorsArray(<<"Feature not available">>)
       /\ pc' = "done"
       /\ UNCHANGED <<userPrompt, steps, messages>>
     ELSE IF schemaThrows(request) THEN
       /\ result' = Errors(<<"ZodError">>)
       /\ pc' = "done"
       /\ UNCHANGED <<userPrompt, steps, messages>>
     ELSE IF \E k \in 1..Len(request.steps) :
               messageParseThrows(formMessage(request, k)) THEN
       /\ result' = Errors(<<"SyntaxError">>)
       /\ pc' = "done"
       /\ UNCHANGED <<userPrompt, steps, messages>>
     ELSE
       /\ userPrompt' = trim(request.prompt)
       /\ steps' = [k \in 1..Len(request.steps) |->
                      [step |-> request.steps[k],
                       template |-> templates(request.steps[k])]]
       /\ messages' = [k \in 1..Len(request.steps) |->
                         parseMessage(formMessage(request, k))]
       /\ pc' = "generate"
       /\ UNCHANGED result
  /\ UNCHANGED <<cancelledAt, chains>>
  /\ UNCHANGED <<featureEnabled, production, env, request, i, responses,
                 calls, inflight, settled, verdicts, text, extracted>>

\* String.prototype.startsWith
startsWith(s, prefix) == Len(s) >= 1 /\ s[1] = prefix

\* Variant: the organization is not checked.
GenerateEntryNoOrgCheck ==
  /\ pc = "generate"
  /\ IF Len(trim(env.OPENAI_KEY)) = 0 THEN
       /\ result' = Errors(ApiMissing)
       /\ pc' = "done"
     ELSE
       /\ pc' = "chain"
       /\ UNCHANGED result
  /\ UNCHANGED <<cancelledAt, chains>>
  /\ UNCHANGED <<featureEnabled, production, env, request, userPrompt, steps,
                 messages, i, responses, calls, inflight, settled, verdicts,
                 text, extracted>>

\* generate, from its entry to the call of chain(): the config checks.
GenerateEntry ==
  /\ pc = "generate"
  /\ IF Len(trim(env.OPENAI_KEY)) = 0 THEN
       /\ result' = Errors(ApiMissing)
       /\ pc' = "done"
     ELSE IF ~startsWith(env.OPENAI_ORG, "org-") THEN
       /\ result' = Errors(OrgInvalid)
       /\ pc' = "done"
     ELSE
       /\ pc' = "chain"
       /\ UNCHANGED result
  /\ UNCHANGED <<cancelledAt, chains>>
  /\ UNCHANGED <<featureEnabled, production, env, request, userPrompt, steps,
                 messages, i, responses, calls, inflight, settled, verdicts,
                 text, extracted>>

\* Variant: complete() is called without await and the loop goes on.
ChainCallNoAwait ==
  /\ pc = "chain"
  /\ i < Len(steps)
  /\ calls' = Append(calls,
       [index |-> i,
        messages |-> completionRequestMessages(i, steps, messages, responses,
                                               userPrompt)])
  /\ inflight' = inflight + 1
  /\ i' = i + 1
  /\ UNCHANGED <<cancelledAt, chains>>
  /\ UNCHANGED <<featureEnabled, production, env, request, pc, userPrompt,
                 steps, messages, responses, settled, verdicts, result, text,
                 extracted>>

\* One loop iteration of chain() up to its await: build the messages and
\* call complete().
ChainCall ==
  /\ pc = "chain"
  /\ i < Len(steps)
  /\ calls' = Append(calls,
       [index |-> i,
        messages |-> completionRequestMessages(i, steps, messages, responses,
                                               userPrompt)])
  /\ inflight' = inflight + 1
  /\ pc' = "await"
  /\ UNCHANGED <<cancelledAt, chains>>
  /\ UNCHANGED <<featureEnabled, production, env, request, userPrompt, steps,
                 messages, i, responses, settled, verdicts, result, text,
                 extracted>>

\* Variant: an empty reply text is thrown as an error.
CompleteResolveEmptyIsError ==
  /\ pc = "await"
  /\ \E reply \in Replies :
       /\ settled' = Append(settled, Resolved(reply))
       /\ IF replyContent(reply) = <<>> THEN
            /\ result' = Errors(somethingWentWrongMsg(<<"Empty response">>,
                                                      production))
            /\ pc' = "done"
            /\ UNCHANGED <<i, responses>>
          ELSE
            /\ responses' = Append(responses,
                 [step |-> steps[i + 1].step, text |-> replyContent(reply)])
            /\ i' = i + 1
            /\ pc' = "chain"
            /\ UNCHANGED result
  /\ inflight' = inflight - 1
  /\ UNCHANGED <<cancelledAt, chains>>
  /\ UNCHANGED <<featureEnabled, production, env, request, userPrompt, steps,
                 messages, calls, verdicts, text, extracted>>

\* Variant: each response is extracted as soon as it arrives, and a failure
\* ends the chain.
CompleteResolveEagerExtract ==
  /\ pc = "await"
  /\ \E reply \in Replies :
       LET ex == getJSONCodeBlock(replyContent(reply), production) IN
       /\ settled' = Append(settled, Resolved(reply))
       /\ responses' = Append(responses,
            [step |-> steps[i + 1].step, text |-> replyContent(reply)])
       /\ IF ex.state = "thrown" THEN
            /\ result' = Errors(somethingWentWrongMsg(ex.error, production))
            /\ pc' = "done"
          ELSE
            /\ pc' = "chain"
            /\ UNCHANGED result
  /\ i' = i + 1
  /\ inflight' = inflight - 1
  /\ UNCHANGED <<cancelledAt, chains>>
  /\ UNCHANGED <<featureEnabled, production, env, request, userPrompt, steps,
                 messages, calls, verdicts, text, extracted>>

\* complete() resolves: responses[i] is assigned and the loop goes on.
CompleteResolve ==
  /\ pc = "await"
  /\ \E reply \in Replies :
       /\ responses' = Append(responses,
            [step |-> steps[i + 1].step, text |-> replyContent(reply)])
       /\ settled' = Append(settled, Resolved(reply))
  /\ i' = i + 1
  /\ inflight' = inflight - 1
  /\ pc' = "chain"
  /\ UNCHANGED <<cancelledAt, chains>>
  /\ UNCHANGED <<featureEnabled, production, env, request, userPrompt, steps,
                 messages, calls, verdicts, result, text, extracted>>

\* Variant: the rejection is caught inside the loop, which goes on with an
\* empty response for the step.
CompleteRejectSwallowed ==
  /\ pc = "await"
  /\ \E st \in Statuses : settled' = Append(settled, Rejected(st))
  /\ responses' = Append(responses, [step |-> steps[i + 1].step, text |-> <<>>])
  /\ i' = i + 1
  /\ inflight' = inflight - 1
  /\ pc' = "chain"
  /\ UNCHANGED <<cancelledAt, chains>>
  /\ UNCHANGED <<featureEnabled, production, env, request, userPrompt, steps,
                 messages, calls, verdicts, result, text, extracted>>

\* complete() rejects: chain() rejects, generate catches and rethrows,
\* action catches and returns the error.
CompleteReject ==
  /\ pc = "await"
  /\ \E st \in Statuses :
       /\ result' = Errors(somethingWentWrongMsg(serviceErrorMsg(st),
                                                 production))
       /\ settled' = Append(settled, Rejected(st))
  /\ inflight' = inflight - 1
  /\ pc' = "done"
  /\ UNCHANGED <<cancelledAt, chains>>
  /\ UNCHANGED <<featureEnabled, production, env, request, userPrompt, steps,
                 messages, i, responses, calls, verdicts, text, extracted>>

\* The validator verdicts a run of responses.map can meet: a validator is
\* called only for a step whose extraction returned and whose predecessors
\* all returned; the other entries are TRUE.
Reached(k, v) ==
  \A j \in 1..(k - 1) :
    getJSONCodeBlock(responses[j].text, production).state = "returned" /\ v[j]

PossibleVerdicts ==
  {v \in [1..Len(responses) -> BOOLEAN] :
     \A k \in 1..Len(responses) :
       LET ex == getJSONCodeBlock(responses[k].text, production) IN
       IF Reached(k, v) /\ ex.state = "returned"
       THEN v[k] \in validators(responses[k].step, ex.value)
       ELSE v[k]}

\* chain() returns; generate maps the responses and returns or throws;
\* action returns the result or the error.
GenerateMap ==
  /\ pc = "chain"
  /\ i >= Len(steps)
  /\ \E v \in PossibleVerdicts :
       LET out == mapResponses(1, responses, v, production) IN
       /\ verdicts' = v
       /\ result' = IF out.thrown
                    THEN Errors(somethingWentWrongMsg(out.error, production))
                    ELSE Ok(out.pairs)
  /\ pc' = "done"
  /\ UNCHANGED <<cancelledAt, chains>>
  /\ UNCHANGED <<featureEnabled, production, env, request, userPrompt, steps,
                 messages, i, responses, calls, inflight, settled, text,
                 extracted>>

\* The host aborts request.signal while a complete() call is in flight, the
\* only point at which the invocation is suspended.  No statement of action,
\* generate or chain reads the signal.
HostCancel ==
  /\ pc = "await"
  /\ cancelledAt = -1
  /\ cancelledAt' = Len(calls)
  /\ UNCHANGED <<featureEnabled, production, env, request, pc, userPrompt,
                 steps, messages, i, responses, calls, inflight, settled,
                 verdicts, result, text, extracted, chains>>

Next ==
  \/ ActionEntry
  \/ GenerateEntry
  \/ ChainCall
  \/ CompleteResolve
  \/ CompleteReject
  \/ GenerateMap

Spec == Init /\ [][Next]_vars

\* The same invocation with a host that may abort request.signal.
NextCancel ==
  \/ Next
  \/ HostCancel

SpecCancel == Init /\ [][NextCancel]_vars

\* ----------------------------------------------------------- extractor
LineAlphabet == {FenceJson, FenceBare, FenceTs, "[1]", "{}", "oops", " ",
                 QuotedFence}
Texts == SeqsUpTo(LineAlphabet, MaxLines)

InitExtract ==
  /\ featureEnabled = TRUE
  /\ production \in BOOLEAN
  /\ env \in {e \in Environments : e.OPENAI_KEY = <<"sk-key">>
                                   /\ e.OPENAI_ORG = <<"org-", "1">>}
  /\ request = [prompt |-> <<>>, steps |-> <<>>, messages |-> <<>>]
  /\ pc = "extract"
  /\ Idle
  /\ chains = <<>>
  /\ text \in Texts
  /\ extracted = NotExtracted

\* getJSONCodeBlock applied to the text.
Extract ==
  /\ pc = "extract"
  /\ extracted' = getJSONCodeBlock(text, production)
  /\ pc' = "extracted"
  /\ UNCHANGED <<cancelledAt, chains>>
  /\ UNCHANGED <<featureEnabled, production, env, request, userPrompt, steps,
                 messages, i, responses, calls, inflight, settled, verdicts,
                 result, text>>

NextExtract == Extract

SpecExtract == InitExtract /\ [][NextExtract]_vars

\* ------------------------------------------------- two chain invocations
\* Two chains built by getChainForPrompt run interleaved; each holds its
\* own prompt, steps, messages and complete (the closure) and its own
\* responses (a local of chain()).  replies logs what complete() gave it.
PairIds == {1, 2}
PairPrompts == {<<"make a button">>, <<"$$">>}
PairStepLists == {<<"instances">>, <<"instances", "styles">>}
PairReplies == {[hasContent |-> TRUE, content |-> <<"[1]">>],
                [hasContent |-> TRUE, content |-> <<"oops">>]}
PairStatuses == {[status |-> "500", statusText |-> "Internal Server Error"]}

PairInputs ==
  UNION {[prompt : PairPrompts,
          steps : {[k \in 1..Len(ids) |->
                      [step |-> ids[k], template |-> templates(ids[k])]]},
          messages : [1..Len(ids) -> {Null, Explicit(History)}]]
         : ids \in PairStepLists}

NewChain(in) ==
  [prompt |-> in.prompt, steps |-> in.steps, messages |-> in.messages,
   i |-> 0, responses |-> <<>>, calls |-> <<>>, replies |-> <<>>,
   pc |-> "chain", returned |-> <<>>]

InitPair ==
  /\ featureEnabled = TRUE
  /\ production = FALSE
  /\ env \in {e \in Environments : e.OPENAI_KEY = <<"sk-key">>
                                   /\ e.OPENAI_ORG = <<"org-", "1">>}
  /\ request = [prompt |-> <<>>, steps |-> <<>>, messages |-> <<>>]
  /\ pc = "pair"
  /\ Idle
  /\ text = <<>>
  /\ extracted = NotExtracted
  /\ \E in \in [PairIds -> PairInputs] :
       chains = [id \in PairIds |-> NewChain(in[id])]

PairUnchanged ==
  UNCHANGED <<featureEnabled, production, env, request, pc, userPrompt, steps,
              messages, i, responses, calls, inflight, settled, verdicts,
              result, text, extracted, cancelledAt>>

\* chain() of invocation id: one loop iteration up to its await.
PairCall(id) ==
  LET c == chains[id] IN
  /\ c.pc = "chain"
  /\ c.i < Len(c.steps)
  /\ chains' = [chains EXCEPT
       ![id].calls = Append(@, completionRequestMessages(c.i, c.steps,
                                 c.messages, c.responses, c.prompt)),
       ![id].pc = "await"]
  /\ PairUnchanged

\* Variant: responses is one array shared by the chains (that of chain 1).
PairResolveShared(id) ==
  LET c == chains[id] IN
  /\ c.pc = "await"
  /\ \E reply \in PairReplies :
       chains' = [chains EXCEPT
         ![id].replies = Append(@, Resolved(reply)),
         ![id].i = @ + 1,
         ![id].pc = "chain",
         ![1].responses = Append(@,
            [step |-> c.steps[c.i + 1].step, text |-> replyContent(reply)])]
  /\ PairUnchanged

\* complete() of invocation id resolves.
PairResolve(id) ==
  LET c == chains[id] IN
  /\ c.pc = "await"
  /\ \E reply \in PairReplies :
       chains' = [chains EXCEPT
         ![id].replies = Append(@, Resolved(reply)),
         ![id].i = @ + 1,
         ![id].pc = "chain",
         ![id].responses = Append(@,
            [step |-> c.steps[c.i + 1].step, text |-> replyContent(reply)])]
  /\ PairUnchanged

\* complete() of invocation id rejects: its chain() rejects.
PairReject(id) ==
  /\ chains[id].pc = "await"
  /\ \E st \in PairStatuses :
       chains' = [chains EXCEPT
         ![id].replies = Append(@, Rejected(st)),
         ![id].pc = "rejected"]
  /\ PairUnchanged

\* chain() of invocation id leaves its loop and returns responses.
PairReturn(id) ==
  LET c == chains[id] IN
  /\ c.pc = "chain"
  /\ c.i >= Len(c.steps)
  /\ chains' = [chains EXCEPT ![id].returned = c.responses,
                              ![id].pc = "returned"]
  /\ PairUnchanged

NextPair ==
  \E id \in PairIds :
    \/ PairCall(id)
    \/ PairResolve(id)
    \/ PairReject(id)
    \/ PairReturn(id)

SpecPair == InitPair /\ [][NextPair]_vars

\* =============================================================== claims
\* The user message of step k (0-based) of the running invocation.
UserMessage(k) ==
  [role |-> "user",
   content |-> trim(replace(steps[k + 1].template, userPrompt))]

AssistantMessage(k) ==
  [role |-> "assistant", content |-> responses[k].text]

\* C1: every call made for a step whose context is null carries exactly the
\* assistant message with the previous step's raw response followed by the
\* step's user message when the step is not the first, and exactly the
\* step's user message when it is the first.
C1_AbsentContextMessages ==
  \A c \in 1..Len(calls) :
    LET k == calls[c].index IN
    messages[k + 1].isNull =>
      IF k > 0
      THEN /\ k <= Len(responses)
           /\ calls[c].messages = <<AssistantMessage(k), UserMessage(k)>>
      ELSE calls[c].messages = <<UserMessage(k)>>

C1_Witness ==
  \E c \in 1..Len(calls) :
    /\ calls[c].index = 1
    /\ messages[2].isNull
    /\ Len(calls[c].messages) = 2
    /\ calls[c].messages[1].role = "assistant"
    /\ calls[c].messages[1].content = <<FenceBare, "oops">>

\* C2: every call made for a step with an explicit history carries exactly
\* that history, in order, followed by the step's user message, also when a
\* previous step's response exists.
C2_ExplicitContextMessages ==
  \A c \in 1..Len(calls) :
    LET k == calls[c].index IN
    ~messages[k + 1].isNull =>
      calls[c].messages = messages[k + 1].list \o <<UserMessage(k)>>

C2_Witness ==
  \E c \in 1..Len(calls) :
    /\ calls[c].index = 1
    /\ ~messages[2].isNull
    /\ Len(responses) >= 1
    /\ responses[1].text # <<>>
    /\ Len(calls[c].messages) = 3
    /\ calls[c].messages[1].content = <<"x">>
    /\ calls[c].messages[2].content = <<"y">>

\* C3: once a complete() call has rejected it is the last call ever made,
\* nothing is in flight, and the invocation has ended with one error string
\* and no step results.
C3_FailureAbortsChain ==
  \A k \in 1..Len(settled) :
    ~settled[k].ok =>
      /\ k = Len(calls)
      /\ inflight = 0
      /\ pc = "done"
      /\ result.kind = "errors"
      /\ result.value = <<>>
      /\ ~result.errorsIsArray

C3_Witness ==
  /\ Len(steps) = 2
  /\ Len(settled) = 2
  /\ settled[1].ok
  /\ ~settled[2].ok
  /\ Len(responses) = 1
  /\ pc = "done"
  /\ result.kind = "errors"
  /\ result.value = <<>>

\* C4: at most one complete() call is in flight; the calls are made in step
\* order, one per step; every call but one in flight has settled, and every
\* resolved call has its response recorded before the next call is made.
C4_OneCallInFlight ==
  /\ inflight \in {0, 1}
  /\ Len(calls) <= Len(steps)
  /\ \A c \in 1..Len(calls) : calls[c].index = c - 1
  /\ Len(settled) = Len(calls) - inflight
  /\ Len(responses) = Cardinality({k \in 1..Len(settled) : settled[k].ok})
  /\ (inflight = 1) <=> (pc = "await")
  /\ result.kind = "ok" => Len(calls) = Len(steps)

C4_Witness ==
  /\ pc = "await"
  /\ inflight = 1
  /\ Len(calls) = 2
  /\ Len(responses) = 1
  /\ settled[1].ok

\* ------------------------------------------------------ extractor claims
CodeNodes == parseMarkdown(text)
JsonTagged == {n \in 1..Len(CodeNodes) : CodeNodes[n].lang = "json"}
Untagged == {n \in 1..Len(CodeNodes) : CodeNodes[n].lang = ""}
DirectlyParseable == ~JSONParseThrows(trim(text))

\* C5: for a text that is not JSON itself and holds a json-tagged block and
\* an untagged block, a returned value is the parsed content of a
\* json-tagged block, and extraction returns whenever the json-tagged
\* blocks hold JSON, whatever the order of the blocks.
C5_JsonTaggedPreferred ==
  (pc = "extracted" /\ ~DirectlyParseable
     /\ JsonTagged # {} /\ Untagged # {}) =>
    /\ extracted.state = "returned" =>
         \E n \in JsonTagged :
           /\ ~JSONParseThrows(CodeNodes[n].value)
           /\ extracted.value = JSONParse(CodeNodes[n].value)
    /\ (\A n \in JsonTagged : ~JSONParseThrows(CodeNodes[n].value)) =>
         extracted.state = "returned"

C5_Witness ==
  /\ pc = "extracted"
  /\ text = <<FenceBare, "{}", FenceBare, FenceJson, "[1]">>
  /\ extracted.state = "returned"
  /\ extracted.value = JArray(<<JNumber("1")>>)

\* C6: a text that is JSON once trimmed is returned parsed, without a scan
\* of its code blocks.
C6_DirectParse ==
  (pc = "extracted" /\ DirectlyParseable) =>
    /\ extracted.state = "returned"
    /\ extracted.value = JSONParse(trim(text))
    /\ ~extracted.scanned

C6_Witness ==
  /\ pc = "extracted"
  /\ text = <<" ", QuotedFence>>
  /\ extracted.state = "returned"
  /\ extracted.value.kind = "string"
  /\ ~extracted.scanned

Chunks(s) == {s[n] : n \in 1..Len(s)}

\* C7: an extraction error starts with the parsing-failed marker and holds
\* the no-code-blocks marker exactly when the text has neither a json-tagged
\* nor an untagged block; only texts that are not JSON themselves fail.
C7_ExtractionErrorMarkers ==
  (pc = "extracted" /\ extracted.state = "thrown") =>
    /\ ~DirectlyParseable
    /\ Len(extracted.error) >= 1
    /\ extracted.error[1] = ParsingFailed
    /\ (NoCodeBlocksFound \in Chunks(extracted.error))
         <=> (JsonTagged = {} /\ Untagged = {})

C7_Witness ==
  /\ pc = "extracted"
  /\ extracted.state = "thrown"
  /\ JsonTagged # {}
  /\ extracted.error[1] = ParsingFailed
  /\ NoCodeBlocksFound \notin Chunks(extracted.error)

\* ------------------------------------------------------- generate claims
Extraction(k) == getJSONCodeBlock(responses[k].text, production)

\* responses.map ran to its end or to its first throw.
MapRan ==
  /\ pc = "done"
  /\ Len(steps) > 0
  /\ Len(responses) = Len(steps)
  /\ Len(verdicts) = Len(steps)

StepFailed(k) == Extraction(k).state = "thrown" \/ ~verdicts[k]

\* C8: a successful result has one pair per step, in step order, and pair k
\* holds the step identifier and the extracted value, wrapped in an array
\* when it is not one; and the result is successful whenever every
\* completion, extraction and validation succeeded.
C8_FinalOutputShape ==
  /\ result.kind = "ok" =>
       /\ Len(result.value) = Len(request.steps)
       /\ \A k \in 1..Len(result.value) :
            /\ result.value[k].step = request.steps[k]
            /\ Extraction(k).state = "returned"
            /\ result.value[k].json =
                 IF Extraction(k).value.kind = "array"
                 THEN Extraction(k).value
                 ELSE [kind |-> "array", lit |-> "",
                       items |-> <<Extraction(k).value>>]
  /\ (MapRan /\ \A k \in 1..Len(steps) : ~StepFailed(k)) =>
       result.kind = "ok"

C8_Witness ==
  /\ result.kind = "ok"
  /\ Len(result.value) = 2
  /\ request.steps = <<"styles", "instances">>
  /\ Extraction(1).value.kind = "array"
  /\ result.value[1].json = Extraction(1).value
  /\ Extraction(2).value.kind = "object"
  /\ result.value[2].json.items = <<JObject>>

\* C9: when the extraction or the validation of some step failed, the
\* invocation ends with one error string and no pair at all.
C9_ShapingFailureNoPartial ==
  (MapRan /\ \E k \in 1..Len(steps) : StepFailed(k)) =>
    /\ result.kind = "errors"
    /\ result.value = <<>>
    /\ ~result.errorsIsArray

C9_Witness ==
  /\ MapRan
  /\ Len(steps) = 2
  /\ ~StepFailed(1)
  /\ StepFailed(2)
  /\ result.kind = "errors"

Contains(sub, s) ==
  \E a \in 0..(Len(s) - Len(sub)) : SubSeq(s, a + 1, a + Len(sub)) = sub

GenericMessage == <<"Something went wrong. ">>
ServiceFailed == \E k \in 1..Len(settled) : ~settled[k].ok
FirstFailed(k) == StepFailed(k) /\ \A j \in 1..(k - 1) : ~StepFailed(j)

\* C10: in production every service, extraction and schema error yields the
\* same message, whatever the status, the raw text or the value; outside
\* production the message holds the status code and text, the raw text, or
\* the printed value.
C10_ProductionMessageGeneric ==
  /\ (production /\ (ServiceFailed \/ (MapRan /\ result.kind = "errors"))) =>
       result.errors = GenericMessage
  /\ ~production =>
       /\ \A k \in 1..Len(settled) : ~settled[k].ok =>
            result.errors =
              GenericMessage \o <<settled[k].status, ": ", settled[k].statusText>>
       /\ MapRan =>
            \A k \in 1..Len(steps) : FirstFailed(k) =>
              IF Extraction(k).state = "thrown"
              THEN /\ Contains(<<ParsingFailed>>, result.errors)
                   /\ Contains(textString(responses[k].text), result.errors)
                   /\ result.errors # GenericMessage
              ELSE /\ Contains(<<"Invalid ", responses[k].step>>, result.errors)
                   /\ Contains(JSONStringify(Extraction(k).value), result.errors)
                   /\ Contains(<<ZodMessage>>, result.errors)

C10_Witness ==
  /\ production
  /\ MapRan
  /\ Len(steps) = 2
  /\ Extraction(1).state = "returned"
  /\ ~verdicts[1]
  /\ result.errors = GenericMessage


\* ---------------------------------------------------------- entry claims
KeyMissing == env.OPENAI_KEY \in {<<>>, <<" ">>}
OrgPrefixMissing == env.OPENAI_ORG = <<>> \/ Head(env.OPENAI_ORG) # "org-"

\* What action returns without calling generate.
EntryErrors ==
  {ErrorsArray(<<"Feature not available">>), Errors(<<"ZodError">>),
   Errors(<<"SyntaxError">>)}

\* C11: with an empty API key or an organization that does not start with
\* org-, no complete() call is ever made, and an invocation that reached
\* generate ends with the configuration error.
C11_ConfigCheckedBeforeCalls ==
  (KeyMissing \/ OrgPrefixMissing) =>
    /\ calls = <<>>
    /\ inflight = 0
    /\ pc \in {"entry", "generate", "done"}
    /\ (pc = "done" /\ result \notin EntryErrors) =>
         result = IF KeyMissing THEN Errors(ApiMissing) ELSE Errors(OrgInvalid)

C11_Witness ==
  /\ pc = "done"
  /\ ~KeyMissing
  /\ OrgPrefixMissing
  /\ Len(steps) = 2
  /\ result = Errors(OrgInvalid)
  /\ calls = <<>>

\* C12: a request whose messages are fewer or more than its steps is
\* rejected: it never gets past the entry of action.
C12_LengthMismatchRejected ==
  (featureEnabled /\ pc # "entry"
     /\ Len(request.messages) # Len(request.steps)) =>
    /\ pc = "done"
    /\ result.kind = "errors"
    /\ calls = <<>>

\* C14: with the feature flag off the invocation ends at once with the
\* unavailable error, whatever the request and the credentials are: nothing
\* is parsed and no complete() call is made.
C14_FeatureDisabledInert ==
  (~featureEnabled /\ pc # "entry") =>
    /\ pc = "done"
    /\ result.kind = "errors"
    /\ result.errors = <<"Feature not available">>
    /\ userPrompt = <<>>
    /\ steps = <<>>
    /\ messages = <<>>
    /\ calls = <<>>

C14_Witness ==
  /\ ~featureEnabled
  /\ pc = "done"
  /\ schemaThrows(request)
  /\ KeyMissing
  /\ result.errors = <<"Feature not available">>

\* C15: an ended invocation returned either the array of pairs or an errors
\* payload whose errors field is one string.
C15_TwoResultShapes ==
  pc = "done" =>
    \/ result.kind = "ok"
    \/ result.kind = "errors" /\ ~result.errorsIsArray


\* ---------------------------------------------------------- chain claims
EmptyReply(k) ==
  settled[k].ok /\ (~settled[k].hasContent \/ settled[k].content = <<>>)

\* The empty reply of call k is recorded as the empty raw text of its step
\* and the chain goes on: the invocation does not end before every step
\* was called, unless a call rejects.
EmptyRecorded(k) ==
  /\ k <= Len(responses)
  /\ responses[k].text = <<>>
  /\ (pc = "done" /\ ~ServiceFailed) => Len(calls) = Len(steps)

\* C13 as claimed: an empty reply is recorded, the chain goes on, and the
\* invocation does not end in an error when no step with a non-empty reply
\* failed.
C13_EmptyTextNoError ==
  \A k \in 1..Len(settled) :
    EmptyReply(k) =>
      /\ EmptyRecorded(k)
      /\ (MapRan /\ \A j \in 1..Len(steps) :
                      StepFailed(j) => responses[j].text = <<>>) =>
           result.kind = "ok"

\* C13 as amended: an empty reply is recorded and the chain goes on, and
\* once every call has resolved the invocation ends in an error; when the
\* empty text is the first failure the error is the extraction error with
\* the no-code-blocks marker.
C13_EmptyTextRecorded ==
  \A k \in 1..Len(settled) :
    EmptyReply(k) =>
      /\ EmptyRecorded(k)
      /\ MapRan =>
           /\ result.kind = "errors"
           /\ StepFailed(k)
           /\ (FirstFailed(k) /\ ~production) =>
                Contains(<<ParsingFailed, "\n\n", NoCodeBlocksFound>>,
                         result.errors)

C13_Witness ==
  /\ MapRan
  /\ Len(steps) = 2
  /\ EmptyReply(1)
  /\ settled[1].hasContent
  /\ Len(calls) = 2
  /\ settled[2].ok
  /\ FirstFailed(1)
  /\ result.kind = "errors"

\* The template with the prompt put in place of the marker, chunk for chunk.
substituteVerbatim(template, prompt) ==
  LET k == CHOOSE n \in 1..Len(template) : template[n] = Marker IN
  SubSeq(template, 1, k - 1) \o prompt \o SubSeq(template, k + 1, Len(template))

\* C18: the last message of every call is the user message whose content is
\* the step's template with the marker replaced by the trimmed prompt as it
\* is.
C18_PromptVerbatim ==
  \A c \in 1..Len(calls) :
    LET k == calls[c].index
        last == calls[c].messages[Len(calls[c].messages)]
    IN /\ last.role = "user"
       /\ last.content = trim(substituteVerbatim(steps[k + 1].template,
                                                 userPrompt))

\* C20: nothing is extracted or reported while calls remain: once a call was
\* made the invocation ends only by a rejected call or after every step's
\* call resolved; a response that cannot be extracted is followed by the
\* next step's call, which carries it as the assistant message when that
\* step has no explicit history.
C20_ExtractionAfterAllCalls ==
  /\ pc \in {"chain", "await"} => (result = Pending /\ verdicts = <<>>)
  /\ (pc = "done" /\ calls # <<>> /\ ~ServiceFailed) =>
       /\ Len(settled) = Len(steps)
       /\ Len(responses) = Len(steps)
  /\ \A k \in 1..Len(responses) :
       (Extraction(k).state = "thrown" /\ k < Len(steps) /\ pc = "done"
          /\ ~ServiceFailed) =>
         /\ Len(calls) > k
         /\ messages[k + 1].isNull =>
              calls[k + 1].messages[1] =
                [role |-> "assistant", content |-> responses[k].text]

C20_Witness ==
  /\ MapRan
  /\ Len(steps) = 2
  /\ Extraction(1).state = "thrown"
  /\ responses[1].text = <<"oops">>
  /\ messages[2].isNull
  /\ calls[2].messages[1] = [role |-> "assistant", content |-> <<"oops">>]
  /\ Extraction(2).state = "returned"
  /\ result.kind = "errors"

\* C19: for a text that is not JSON itself and has a candidate block, the
\* outcome is that of parsing one block, the last json-tagged block if there
\* is one and the first untagged block otherwise: its value when it parses,
\* an error when it does not, whatever the other blocks hold.
C19_SingleCandidate ==
  (pc = "extracted" /\ ~DirectlyParseable
     /\ (JsonTagged \cup Untagged) # {}) =>
    LET n == IF JsonTagged # {}
             THEN CHOOSE a \in JsonTagged : \A b \in JsonTagged : b <= a
             ELSE CHOOSE a \in Untagged : \A b \in Untagged : a <= b
        candidate == CodeNodes[n].value
    IN IF JSONParseThrows(candidate)
       THEN extracted.state = "thrown"
       ELSE /\ extracted.state = "returned"
            /\ extracted.value = JSONParse(candidate)

C19_Witness ==
  /\ pc = "extracted"
  /\ text = <<FenceJson, "[1]", FenceBare, FenceJson, "oops">>
  /\ extracted.state = "thrown"


\* C16: once the host has cancelled, no further complete() call is made.
C16_NoCallAfterCancel ==
  cancelledAt >= 0 => Len(calls) = cancelledAt


\* What invocation c alone sends for its n-th call, from its own prompt,
\* steps, messages and the replies it received.
OwnUserMessage(c, n) ==
  [role |-> "user", content |-> trim(replace(c.steps[n].template, c.prompt))]

OwnMessages(c, n) ==
  IF ~c.messages[n].isNull THEN c.messages[n].list \o <<OwnUserMessage(c, n)>>
  ELSE IF n > 1
  THEN <<[role |-> "assistant", content |-> replyContent(c.replies[n - 1])],
         OwnUserMessage(c, n)>>
  ELSE <<OwnUserMessage(c, n)>>

\* C17: whatever the interleaving, the message lists an invocation sends and
\* the results it records and returns are determined by its own prompt,
\* steps, messages and replies.
C17_NoSharedState ==
  pc = "pair" =>
    \A id \in PairIds :
      LET c == chains[id]
          resolved == {k \in 1..Len(c.replies) : c.replies[k].ok}
      IN /\ Len(c.responses) = Cardinality(resolved)
         /\ \A k \in 1..Len(c.responses) :
              c.responses[k] = [step |-> c.steps[k].step,
                                text |-> replyContent(c.replies[k])]
         /\ \A n \in 1..Len(c.calls) : c.calls[n] = OwnMessages(c, n)
         /\ c.pc = "returned" =>
              /\ Len(c.returned) = Len(c.steps)
              /\ c.returned = c.responses

C17_Witness ==
  /\ pc = "pair"
  /\ chains[1].pc = "await"
  /\ chains[2].pc = "await"
  /\ Len(chains[1].calls) = 2
  /\ Len(chains[2].calls) = 2
  /\ chains[1].prompt # chains[2].prompt
  /\ chains[1].responses # chains[2].responses
  /\ chains[1].messages[2].isNull
  /\ chains[2].messages[2].isNull

====
